---- MODULE Spec2Model ----
(***************************************************************************)
(* CryptoSteg: the LSB steganography codec of src/static/steganography.js. *)
(*                                                                         *)
(* A string is a sequence of character codes, a bit string a sequence of   *)
(* 0/1, and the canvas ImageData buffer a sequence of samples 0..255 whose *)
(* JavaScript index p is the sequence index p + 1.                         *)
(***************************************************************************)
EXTENDS Integers, Sequences, FiniteSets, TLC

(* ------------------------------ bounds --------------------------------- *)

\* Carrier images offered to hideData: Widths \X Heights.
MaxWidth == 8

MaxHeight == 6

\* Texts offered to hideData: every string over TextAlphabet up to this length.
MaxTextLen == 3

\* Texts offered to the conversions on their own: up to this length.
MaxConvLen == 3

\* Bit strings offered to binaryToText on its own: up to this length.
MaxBits == 9

\* Texts offered to the Caesar cipher: up to this length.
MaxCaesarLen == 2

\* Images with prepared least-significant bits, offered to extractData.
CraftWidth == 10

CraftHeight == 11

\* How far beyond the end of the buffer the scan index of extractData is
\* tracked; further on every iteration is the same (nothing read or counted).
ScanSlack == 2

(* ------------------------- program constants --------------------------- *)

HeaderBits == 32

CharBits == 8

SearchWindow == 20

RecoveryMin == 10

ChannelsPerPixel == 4

\* What calculateMaxTextLength of src/unnamed/part_000 holds back.
CapacityMargin == 20

TXT == <<84, 88, 84, 58>>

ENC == <<69, 78, 67, 58>>

EOF == <<60, 60, 69, 79, 70, 62, 62>>

PartialPrefix ==
    <<80, 97, 114, 116, 105, 97, 108, 32, 114, 101, 99, 111, 118, 101, 114, 121, 58, 32>>

(* --------------------------- string helpers ---------------------------- *)

\* text.substring(from, to) with JavaScript's 0-based, end-exclusive indices.
Substring(s, from, to) ==
    LET a == IF from > Len(s) THEN Len(s) ELSE from
        b == IF to > Len(s) THEN Len(s) ELSE to
    IN  IF a >= b THEN << >> ELSE SubSeq(s, a + 1, b)

\* text.substring(from)
SubstringFrom(s, from) == Substring(s, from, Len(s))

\* The positions (0-based) at which pat occurs in s.
Occurrences(s, pat) ==
    { k \in 0..(Len(s) - Len(pat)) : SubSeq(s, k + 1, k + Len(pat)) = pat }

\* text.includes(pat)
Includes(s, pat) == Occurrences(s, pat) /= {}

\* text.indexOf(pat), -1 when absent
IndexOf(s, pat) ==
    IF Occurrences(s, pat) = {} THEN -1
    ELSE CHOOSE k \in Occurrences(s, pat) : \A j \in Occurrences(s, pat) : k <= j

\* text.startsWith(pat)
StartsWith(s, pat) == Len(s) >= Len(pat) /\ SubSeq(s, 1, Len(pat)) = pat

\* A split that keeps everything up to the last occurrence of pat.
SplitFirst_AtLast(s, pat) ==
    IF Includes(s, pat)
    THEN Substring(s, 0, CHOOSE k \in Occurrences(s, pat) : \A j \in Occurrences(s, pat) : k >= j)
    ELSE s

\* text.split(pat)[0]
SplitFirst(s, pat) ==
    IF Includes(s, pat) THEN Substring(s, 0, IndexOf(s, pat)) ELSE s

\* The replacement without the g flag: only the first unprintable character goes.
StripNonPrintable_FirstOnly(s) ==
    LET bad == { k \in 1..Len(s) : s[k] < 32 \/ s[k] > 126 }
    IN  IF bad = {} THEN s
        ELSE LET first == CHOOSE k \in bad : \A j \in bad : k <= j
             IN  SubSeq(s, 1, first - 1) \o SubSeq(s, first + 1, Len(s))

\* text.replace(/[^\x20-\x7E]/g, '')
StripNonPrintable(s) == SelectSeq(s, LAMBDA c : c >= 32 /\ c <= 126)

(* ----------------------------- bit helpers ----------------------------- *)

RECURSIVE ToString2(_)
\* n.toString(2): the binary digits of n, most significant first.
ToString2(n) == IF n < 2 THEN <<n>> ELSE ToString2(n \div 2) \o <<(n % 2)>>

\* bits.padStart(width, '0')
PadStart(bits, width) ==
    IF Len(bits) >= width THEN bits
    ELSE [k \in 1..(width - Len(bits)) |-> 0] \o bits

RECURSIVE ParseInt2(_)
\* parseInt(bits, 2)
ParseInt2(bits) ==
    IF bits = << >> THEN 0
    ELSE 2 * ParseInt2(SubSeq(bits, 1, Len(bits) - 1)) + bits[Len(bits)]

RECURSIVE textToBinary(_)
textToBinary(text) ==
    IF text = << >> THEN << >>
    ELSE PadStart(ToString2(Head(text)), CharBits) \o textToBinary(Tail(text))

\* Each complete group of 8 bits becomes a character; a shorter last group
\* (byte.length !== 8) is dropped.
binaryToText(binary) ==
    [k \in 1..(Len(binary) \div CharBits) |->
        ParseInt2(SubSeq(binary, CharBits * (k - 1) + 1, CharBits * k))]

numberToBinary(number, bitLength) == PadStart(ToString2(number), bitLength)

\* A write that replaces the whole sample by the bit.
SetLSB_Overwrite(sample, bit) == bit

\* (sample & 0xFE) | bit
SetLSB(sample, bit) == (sample - (sample % 2)) + bit

\* sample & 1; a read beyond the buffer yields undefined, and undefined & 1 is 0.
LSBAt(buf, p) == IF p < Len(buf) THEN buf[p + 1] % 2 ELSE 0

\* (index + 1) % 4 === 0
IsAlpha(p) == (p + 1) % ChannelsPerPixel = 0

(* -------------------- external collaborator: CryptoJS ------------------ *)

\* The salt characters CryptoJS may draw for one encryption.
Salts == {65, 66}

\* Stand-in for one ciphertext character (a base64 digit).
CipherChar(c) == 48 + (c % 10)

\* CryptoJS.AES.encrypt(text, password).toString(): an opaque base64 string
\* that depends on the text, the password and a random salt.
Encrypt(t, pw, salt) == <<salt, pw[1]>> \o [k \in 1..Len(t) |-> CipherChar(t[k])]

(* ------------------------------- inputs -------------------------------- *)

TextAlphabet == {97, 98}

Texts == UNION { [1..n -> TextAlphabet] : n \in 0..MaxTextLen } \cup {ENC}

PW == <<112, 119>>

Passwords == {<< >>, PW}

\* CryptoJS.AES.decrypt(ct, password).toString(Utf8): the text whose encryption
\* under this password ct is; the empty string for anything else.
Decrypt(ct, pw) ==
    LET cands == { t \in Texts : \E s \in Salts : Encrypt(t, pw, s) = ct }
    IN  IF cands = {} THEN << >> ELSE CHOOSE t \in cands : TRUE

Widths == {2, MaxWidth}

Heights == 2..MaxHeight

\* Sample p of an image of the given kind.
Pattern(kind, p) ==
    IF kind = "white" THEN 255 ELSE (p * 5 + (p \div 8)) % 256

PlainImage(w, h, kind) ==
    [p1 \in 1..(ChannelsPerPixel * w * h) |-> Pattern(kind, p1 - 1)]

CarrierImages ==
    { PlainImage(w, h, kind) : w \in Widths, h \in Heights, kind \in {"white", "mixed"} }

(* ------------------------------- hideData ------------------------------ *)

\* The capacity from the dimensions, dividing before multiplying.
calculateMaxTextLength_DivFirst(w, h) == ((w * h) \div CharBits) * 3

\* calculateMaxTextLength of src/static/steganography.js:
\* Math.floor((image.width * image.height * 3) / 8)
calculateMaxTextLength(w, h) == (w * h * 3) \div CharBits

\* calculateMaxTextLength of src/unnamed/part_000:
\* Math.floor(bitsAvailable / 8) - 20
calculateMaxTextLength_part000(w, h) ==
    LET pixelCount == w * h
        bitsAvailable == pixelCount * 3
    IN  (bitsAvailable \div CharBits) - CapacityMargin

\* The capacity computed from the samples instead of the pixels.
Capacity_PerSample(buf) == (Len(buf) * 3) \div CharBits

\* Math.floor((data.length / 4) * 3 / 8)
Capacity(buf) == ((Len(buf) \div ChannelsPerPixel) * 3) \div CharBits

\* prefix + processedText + '<<EOF>>'
Frame(processed, pw) == (IF pw /= << >> THEN ENC ELSE TXT) \o processed \o EOF

\* An index that advances by one sample in four instead of one in three.
DataIndex_PerFour(k) == HeaderBits + k + ((HeaderBits + k) \div 4)

\* 32 + i + Math.floor((32 + i) / 3)
DataIndex(k) == HeaderBits + k + ((HeaderBits + k) \div 3)

\* The header loop stopping one sample early.
WriteHeader_Short(buf, dataLengthBinary) ==
    [p1 \in 1..Len(buf) |->
        IF p1 < HeaderBits THEN SetLSB(buf[p1], dataLengthBinary[p1]) ELSE buf[p1]]

\* The header loop: data[i] = (data[i] & 0xFE) | bit i of the length.
WriteHeader(buf, dataLengthBinary) ==
    [p1 \in 1..Len(buf) |->
        IF p1 <= HeaderBits THEN SetLSB(buf[p1], dataLengthBinary[p1]) ELSE buf[p1]]

\* The payload iteration storing bit k at sample 32 + k, alpha or not.
PayloadStep_NoSkip(buf, binaryData, k) ==
    IF HeaderBits + k < Len(buf)
    THEN [buf EXCEPT ![HeaderBits + k + 1] = SetLSB(@, binaryData[k + 1])]
    ELSE buf

\* A payload iteration that merges its bit into the sample: it sets the low
\* bit for a 1 and leaves the sample as it is for a 0.
PayloadStep_Merge(buf, binaryData, k) ==
    LET dataIndex == DataIndex(k)
    IN  IF IsAlpha(dataIndex) THEN buf
        ELSE IF dataIndex < Len(buf) /\ binaryData[k + 1] = 1
             THEN [buf EXCEPT ![dataIndex + 1] = SetLSB(@, 1)]
             ELSE buf

\* One iteration of the payload loop: bit k is stored at its computed index
\* unless that is an alpha index or lies beyond the buffer.
PayloadStep(buf, binaryData, k) ==
    LET dataIndex == DataIndex(k)
    IN  IF IsAlpha(dataIndex) THEN buf
        ELSE IF dataIndex < Len(buf)
             THEN [buf EXCEPT ![dataIndex + 1] = SetLSB(@, binaryData[k + 1])]
             ELSE buf

(* ----------------------------- extractData ----------------------------- *)

\* The header loop: lengthBinary += data[i] & 1 for i = 0..31.
ReadLengthBinary(buf) == [k \in 1..HeaderBits |-> LSBAt(buf, k - 1)]

\* parseInt(lengthBinary, 2), kept as two 16-bit halves (the value is
\* hi * 65536 + lo): the header ranges over all of 0 .. 2^32 - 1.
ParseLength(lengthBinary) ==
    [hi |-> ParseInt2(SubSeq(lengthBinary, 1, HeaderBits \div 2)),
     lo |-> ParseInt2(SubSeq(lengthBinary, (HeaderBits \div 2) + 1, HeaderBits))]

\* The length check with >= in place of >.
LengthInvalid_Strict(len, buf) ==
    \/ (len.hi = 0 /\ len.lo <= 0)
    \/ len.hi > 0
    \/ len.lo * ChannelsPerPixel >= Len(buf)

\* length <= 0 || length > (data.length / 4)
LengthInvalid(len, buf) ==
    \/ (len.hi = 0 /\ len.lo <= 0)
    \/ len.hi > 0
    \/ len.lo * ChannelsPerPixel > Len(buf)

\* extractedText.includes('<<EOF>>') ? extractedText.split('<<EOF>>')[0] : extractedText
CleanText(x) == IF Includes(x, EOF) THEN SplitFirst(x, EOF) ELSE x

\* The tag search without the look into the first 20 characters.
DataType_PrefixOnly(clean) ==
    IF StartsWith(clean, ENC) THEN "encrypted"
    ELSE IF StartsWith(clean, TXT) THEN "plaintext"
    ELSE "unknown"

\* The format the tag search settles on.
DataType(clean) ==
    IF StartsWith(clean, ENC) THEN "encrypted"
    ELSE IF StartsWith(clean, TXT) THEN "plaintext"
    ELSE IF Includes(Substring(clean, 0, SearchWindow), ENC) THEN "encrypted"
    ELSE IF Includes(Substring(clean, 0, SearchWindow), TXT) THEN "plaintext"
    ELSE "unknown"

\* A tag search that leaves the tag found in the window at the head of the content.
ProcessedText_KeepTag(clean) ==
    IF StartsWith(clean, ENC) THEN SubstringFrom(clean, Len(ENC))
    ELSE IF StartsWith(clean, TXT) THEN SubstringFrom(clean, Len(TXT))
    ELSE IF Includes(Substring(clean, 0, SearchWindow), ENC)
         THEN SubstringFrom(clean, IndexOf(clean, ENC))
    ELSE IF Includes(Substring(clean, 0, SearchWindow), TXT)
         THEN SubstringFrom(clean, IndexOf(clean, TXT))
    ELSE clean

\* The content the tag search leaves.
ProcessedText(clean) ==
    IF StartsWith(clean, ENC) THEN SubstringFrom(clean, Len(ENC))
    ELSE IF StartsWith(clean, TXT) THEN SubstringFrom(clean, Len(TXT))
    ELSE IF Includes(Substring(clean, 0, SearchWindow), ENC)
         THEN SubstringFrom(clean, IndexOf(clean, ENC) + Len(ENC))
    ELSE IF Includes(Substring(clean, 0, SearchWindow), TXT)
         THEN SubstringFrom(clean, IndexOf(clean, TXT) + Len(TXT))
    ELSE clean

Resolved(kind, value) == [settled |-> "resolved", kind |-> kind, value |-> value, max |-> 0]

Rejected(kind, max) == [settled |-> "rejected", kind |-> kind, value |-> << >>, max |-> max]

Pending == [settled |-> "pending", kind |-> "none", value |-> << >>, max |-> 0]

\* Everything extractData does with the decoded text: marker check, tag search,
\* decryption, partial recovery.
UnframeOutcome(x, pw) ==
    IF ~Includes(x, EOF) /\ ~(Includes(x, TXT) \/ Includes(x, ENC))
    THEN Rejected("ExtractionFailed", 0)
    ELSE LET clean == CleanText(x)
             dataType == DataType(clean)
             processed == ProcessedText(clean)
             possibleText == StripNonPrintable(clean)
         IN  IF dataType = "encrypted"
             THEN IF pw = << >> THEN Rejected("PasswordRequired", 0)
                  ELSE IF Decrypt(processed, pw) = << >>
                       THEN Rejected("DecryptionFailed", 0)
                       ELSE Resolved("decrypted", Decrypt(processed, pw))
             ELSE IF dataType = "plaintext" THEN Resolved("plaintext", processed)
             ELSE IF Len(possibleText) > RecoveryMin
                  THEN Resolved("partial", PartialPrefix \o possibleText)
                  ELSE Rejected("UnknownFormat", 0)

\* What extractData of src/unnamed/part_000 does with the decoded text. Its
\* cleanText is a const: the assignment to it in the two branches that find
\* a tag inside the first 20 characters throws a TypeError, which the outer
\* catch turns into a rejection.
UnframeOutcome_part000(x, pw) ==
    IF ~Includes(x, EOF) /\ ~(Includes(x, TXT) \/ Includes(x, ENC))
    THEN Rejected("ExtractionFailed", 0)
    ELSE LET clean == CleanText(x)
             possibleText == StripNonPrintable(clean)
         IN  IF StartsWith(clean, ENC)
             THEN IF pw = << >> THEN Rejected("PasswordRequired", 0)
                  ELSE IF Decrypt(SubstringFrom(clean, Len(ENC)), pw) = << >>
                       THEN Rejected("DecryptionFailed", 0)
                       ELSE Resolved("decrypted", Decrypt(SubstringFrom(clean, Len(ENC)), pw))
             ELSE IF StartsWith(clean, TXT)
             THEN Resolved("plaintext", SubstringFrom(clean, Len(TXT)))
             ELSE IF Includes(Substring(clean, 0, SearchWindow), ENC)
             THEN Rejected("TypeError", 0)
             ELSE IF Includes(Substring(clean, 0, SearchWindow), TXT)
             THEN Rejected("TypeError", 0)
             ELSE IF Len(possibleText) > RecoveryMin
                  THEN Resolved("partial", PartialPrefix \o possibleText)
                  ELSE Rejected("UnknownFormat", 0)

(* ------------------ images with prepared low bits ---------------------- *)

\* The image `base` with the 32 header bits and the low bits of the samples
\* extractData scans (index >= 32, alpha skipped) set to the given bits.
CraftImage(base, headerBits, bits) ==
    [p1 \in 1..Len(base) |->
        LET p == p1 - 1
            q == p - HeaderBits
            j == q - (q \div ChannelsPerPixel)
        IN  IF p < HeaderBits THEN SetLSB(base[p1], headerBits[p1])
            ELSE IF ~IsAlpha(p) /\ j < Len(bits) THEN SetLSB(base[p1], bits[j + 1])
            ELSE base[p1]]

\* Leading characters before the tag: printable, or printable and
\* unprintable in turn.
Junk(n, kind) ==
    [k \in 1..n |-> IF kind = "printable" \/ k % 2 = 1 THEN 120 ELSE 1]

JunkLens ==
    {0, 1, RecoveryMin, RecoveryMin + 1,
     SearchWindow - Len(TXT), SearchWindow - Len(TXT) + 1, SearchWindow}

\* Decoded texts an image may carry: junk, an optional tag, a body, an
\* optional end marker.
DecodedSamples ==
    { Junk(n, kind) \o tag \o body \o marker :
        n \in JunkLens, kind \in {"printable", "mixed"},
        tag \in {<< >>, TXT, ENC}, body \in {<< >>, <<97, 98>>, ENC},
        marker \in {<< >>, EOF} }

\* Decoded texts with the end marker more than once, first, or followed by
\* further text.
MarkerSamples ==
    { TXT \o <<97, 98>> \o EOF \o <<98, 97>> \o EOF,
      TXT \o <<97, 98>> \o EOF \o EOF,
      <<120>> \o ENC \o <<97, 98>> \o EOF \o TXT \o <<97>>,
      EOF \o TXT \o <<97, 98>>,
      Junk(RecoveryMin + 1, "printable") \o EOF \o <<120>> \o EOF }

\* Decoded texts with a ciphertext that decrypts, its tag at, before and
\* beyond the last offset of the search window that holds a whole tag.
CipherSamples ==
    { Junk(n, "printable") \o ENC \o Encrypt(<<97, 98>>, PW, 65) \o marker :
        n \in {0, 1, SearchWindow - Len(ENC), SearchWindow - Len(ENC) + 1},
        marker \in {<< >>, EOF} }

CraftBase == PlainImage(CraftWidth, CraftHeight, "white")

CraftPixels == CraftWidth * CraftHeight

\* Header values around the validation limits.
HeaderSamples ==
    { numberToBinary(n, HeaderBits) : n \in {0, 1, CraftPixels, CraftPixels + 1} }
    \cup { [k \in 1..HeaderBits |-> IF k = b THEN 1 ELSE 0] : b \in {1, HeaderBits \div 2} }

CraftedImages ==
    { CraftImage(CraftBase, numberToBinary(Len(x), HeaderBits), textToBinary(x)) :
        x \in (DecodedSamples \cup MarkerSamples \cup CipherSamples) \ {<< >>} }
    \cup { CraftImage(CraftBase, hb, textToBinary(TXT)) : hb \in HeaderSamples }

Images == CarrierImages \cup CraftedImages

(* -------------------------------- state -------------------------------- *)

VARIABLES
    pc,               \* where the call in progress stands; "idle" between calls
    call,             \* "none", "hideData" or "extractData"
    image,            \* the samples of the image handed to the next call
    data,             \* imageData.data of the call in progress
    maxDataSize,      \* this.maxDataSize
    text,             \* hideData's text argument
    password,         \* the password argument of the call in progress
    dataToHide,       \* hideData: prefix + processedText + '<<EOF>>'
    binaryData,       \* hideData: textToBinary(dataToHide)
    length,           \* extractData: the header value
    bitsToExtract,    \* extractData: length * 8
    i,                \* extractData: scan index of the collection loop
    bitCount,         \* extractData: bits collected so far
    extractedBinary,  \* extractData: the bits collected so far
    extractedText,    \* extractData: binaryToText(extractedBinary)
    outcome,          \* how the promise of the call settled
    embedded,         \* what the hideData call that produced `image` was given
    disabled          \* main.js: the disabled flag of the hide and the extract button

vars ==
    <<pc, call, image, data, maxDataSize, text, password, dataToHide, binaryData, length,
      bitsToExtract, i, bitCount, extractedBinary, extractedText, outcome, embedded,
      disabled>>

hideLocals == <<text, dataToHide, binaryData>>

extractLocals == <<length, bitsToExtract, i, bitCount, extractedBinary, extractedText>>

NoLength == [hi |-> 0, lo |-> 0]

NoEmbed == [done |-> FALSE, text |-> << >>, password |-> << >>, dataToHide |-> << >>]

\* The two buttons of the page whose click handlers call the codec.
Buttons == {"hideDataBtn", "extractDataBtn"}

\* Both buttons start enabled.
NoneDisabled == [b \in Buttons |-> FALSE]

Init ==
    /\ image \in Images
    /\ pc = "idle"
    /\ call = "none"
    /\ data = << >>
    /\ maxDataSize = 0
    /\ text = << >>
    /\ password = << >>
    /\ dataToHide = << >>
    /\ binaryData = << >>
    /\ length = NoLength
    /\ bitsToExtract = 0
    /\ i = 0
    /\ bitCount = 0
    /\ extractedBinary = << >>
    /\ extractedText = << >>
    /\ outcome = Pending
    /\ embedded = NoEmbed
    /\ disabled = NoneDisabled

(* --------------------------- hideData actions -------------------------- *)

\* A capacity check that reads this.maxDataSize as the previous call left it.
HideData_StaleMax(t, pw, salt) ==
    /\ pc = "idle"
    /\ image \in CarrierImages
    /\ call' = "hideData"
    /\ data' = image
    /\ maxDataSize' = Capacity(image)
    /\ text' = t
    /\ password' = pw
    /\ LET processedText == IF pw /= << >> THEN Encrypt(t, pw, salt) ELSE t
           framed == Frame(processedText, pw)
       IN  /\ dataToHide' = framed
           /\ IF Len(framed) > maxDataSize
              THEN /\ pc' = "settled"
                   /\ outcome' = Rejected("CapacityExceeded", maxDataSize)
                   /\ UNCHANGED binaryData
              ELSE /\ pc' = "WriteHeader"
                   /\ outcome' = Pending
                   /\ binaryData' = textToBinary(framed)
    /\ UNCHANGED <<image, extractLocals, embedded>>
    /\ UNCHANGED disabled

\* hideData up to the capacity check: draw the image, compute maxDataSize,
\* encrypt and frame the text, throw when the frame is too long.
HideData(t, pw, salt) ==
    /\ pc = "idle"
    /\ image \in CarrierImages
    /\ call' = "hideData"
    /\ data' = image
    /\ maxDataSize' = Capacity(image)
    /\ text' = t
    /\ password' = pw
    /\ LET processedText == IF pw /= << >> THEN Encrypt(t, pw, salt) ELSE t
           framed == Frame(processedText, pw)
       IN  /\ dataToHide' = framed
           /\ IF Len(framed) > Capacity(image)
              THEN /\ pc' = "settled"
                   /\ outcome' = Rejected("CapacityExceeded", Capacity(image))
                   /\ UNCHANGED binaryData
              ELSE /\ pc' = "WriteHeader"
                   /\ outcome' = Pending
                   /\ binaryData' = textToBinary(framed)
    /\ UNCHANGED <<image, extractLocals, embedded>>
    /\ UNCHANGED disabled

\* The header loop of hideData.
HideHeader ==
    /\ pc = "WriteHeader"
    /\ data' = WriteHeader(data, numberToBinary(Len(dataToHide), HeaderBits))
    /\ pc' = "WritePayload"
    /\ i' = 0
    /\ UNCHANGED <<call, image, maxDataSize, hideLocals, password, length,
                   bitsToExtract, bitCount, extractedBinary, extractedText,
                   outcome, embedded>>
    /\ UNCHANGED disabled

\* One iteration of the payload loop: for (let i = 0; i < binaryData.length; i++).
HidePayload ==
    /\ pc = "WritePayload"
    /\ i < Len(binaryData)
    /\ data' = PayloadStep(data, binaryData, i)
    /\ i' = i + 1
    /\ UNCHANGED <<pc, call, image, maxDataSize, hideLocals, password, length,
                   bitsToExtract, bitCount, extractedBinary, extractedText,
                   outcome, embedded>>
    /\ UNCHANGED disabled

\* The payload loop ends; putImageData and toBlob: the promise resolves with
\* the image made of the modified samples.
HideDone ==
    /\ pc = "WritePayload"
    /\ i >= Len(binaryData)
    /\ pc' = "settled"
    /\ outcome' = Resolved("blob", << >>)
    /\ UNCHANGED <<call, image, data, maxDataSize, hideLocals, password,
                   extractLocals, embedded>>
    /\ UNCHANGED disabled

(* ------------------------- extractData actions ------------------------- *)

\* extractData is called: the image is drawn and its samples are read.
ExtractData(pw) ==
    /\ pc = "idle"
    /\ call' = "extractData"
    /\ data' = image
    /\ password' = pw
    /\ pc' = "ReadHeader"
    /\ outcome' = Pending
    /\ UNCHANGED <<image, maxDataSize, hideLocals, extractLocals, embedded>>
    /\ UNCHANGED disabled

\* The 32 header bits are read and parsed.
ReadHeader ==
    /\ pc = "ReadHeader"
    /\ length' = ParseLength(ReadLengthBinary(data))
    /\ pc' = "ValidateLength"
    /\ UNCHANGED <<call, image, data, maxDataSize, hideLocals, password,
                   bitsToExtract, i, bitCount, extractedBinary, extractedText,
                   outcome, embedded>>
    /\ UNCHANGED disabled

\* The length check, and the set-up of the collection loop.
ValidateLength ==
    /\ pc = "ValidateLength"
    /\ IF LengthInvalid(length, data)
       THEN /\ pc' = "settled"
            /\ outcome' = Rejected("NoHiddenData", 0)
            /\ UNCHANGED <<bitsToExtract, i>>
       ELSE /\ pc' = "CollectBits"
            /\ bitsToExtract' = length.lo * CharBits
            /\ i' = HeaderBits
            /\ UNCHANGED outcome
    /\ UNCHANGED <<call, image, data, maxDataSize, hideLocals, password, length,
                   bitCount, extractedBinary, extractedText, embedded>>
    /\ UNCHANGED disabled

\* A collection loop that clears each bit it reads.
CollectBits_Destructive ==
    /\ pc = "CollectBits"
    /\ bitCount < bitsToExtract
    /\ IF ~IsAlpha(i) /\ i < Len(data)
       THEN /\ extractedBinary' = Append(extractedBinary, data[i + 1] % 2)
            /\ bitCount' = bitCount + 1
            /\ data' = [data EXCEPT ![i + 1] = SetLSB(data[i + 1], 0)]
       ELSE UNCHANGED <<extractedBinary, bitCount, data>>
    /\ i' = IF i >= Len(data) + ScanSlack THEN i ELSE i + 1
    /\ UNCHANGED <<pc, call, image, maxDataSize, hideLocals, password, length,
                   bitsToExtract, extractedText, outcome, embedded>>
    /\ UNCHANGED disabled

\* One iteration of the collection loop: for (i = 32; bitCount < bitsToExtract; i++).
CollectBits ==
    /\ pc = "CollectBits"
    /\ bitCount < bitsToExtract
    /\ IF ~IsAlpha(i) /\ i < Len(data)
       THEN /\ extractedBinary' = Append(extractedBinary, data[i + 1] % 2)
            /\ bitCount' = bitCount + 1
       ELSE UNCHANGED <<extractedBinary, bitCount>>
    /\ i' = IF i >= Len(data) + ScanSlack THEN i ELSE i + 1
    /\ UNCHANGED <<pc, call, image, data, maxDataSize, hideLocals, password, length,
                   bitsToExtract, extractedText, outcome, embedded>>
    /\ UNCHANGED disabled

\* The loop ends and the bits are converted to text.
CollectDone ==
    /\ pc = "CollectBits"
    /\ bitCount >= bitsToExtract
    /\ extractedText' = binaryToText(extractedBinary)
    /\ pc' = "Unframe"
    /\ UNCHANGED <<call, image, data, maxDataSize, hideLocals, password, length,
                   bitsToExtract, i, bitCount, extractedBinary, outcome, embedded>>
    /\ UNCHANGED disabled

\* Marker check, tag search, decryption or partial recovery: the promise settles.
Unframe ==
    /\ pc = "Unframe"
    /\ outcome' = UnframeOutcome(extractedText, password)
    /\ pc' = "settled"
    /\ UNCHANGED <<call, image, data, maxDataSize, hideLocals, password,
                   extractLocals, embedded>>
    /\ UNCHANGED disabled

\* The caller takes the result; the blob of a successful hideData is the image
\* handed to later calls.
Return ==
    /\ pc = "settled"
    /\ pc' = "idle"
    /\ call' = "none"
    /\ IF call = "hideData" /\ outcome.settled = "resolved"
       THEN /\ image' = data
            /\ embedded' = [done |-> TRUE, text |-> text, password |-> password,
                            dataToHide |-> dataToHide]
       ELSE UNCHANGED <<image, embedded>>
    /\ data' = << >>
    /\ text' = << >>
    /\ password' = << >>
    /\ dataToHide' = << >>
    /\ binaryData' = << >>
    /\ length' = NoLength
    /\ bitsToExtract' = 0
    /\ i' = 0
    /\ bitCount' = 0
    /\ extractedBinary' = << >>
    /\ extractedText' = << >>
    /\ outcome' = Pending
    /\ UNCHANGED maxDataSize
    /\ UNCHANGED disabled

Next ==
    \/ \E t \in Texts, pw \in Passwords, salt \in Salts : HideData(t, pw, salt)
    \/ HideHeader
    \/ HidePayload
    \/ HideDone
    \/ \E pw \in Passwords : ExtractData(pw)
    \/ ReadHeader
    \/ ValidateLength
    \/ CollectBits
    \/ CollectDone
    \/ Unframe
    \/ Return

Spec == Init /\ [][Next]_vars

(* ------------- several calls on one Steganography instance ------------- *)

\* The images the calls followed step by step are given.
SharedImages == { PlainImage(w, h, "white") : w \in Widths, h \in {2, MaxHeight} }

\* The buffers of the other calls on the same instance.
OtherBuffers == { PlainImage(2, 2, "white"), PlainImage(MaxWidth, MaxHeight, "mixed") }

\* Another hideData call on the same instance, with a buffer of its own, runs
\* its executor between two steps of the call followed here: of the state
\* they share it assigns this.maxDataSize.
OtherCall(buf) ==
    /\ maxDataSize' = Capacity(buf)
    /\ UNCHANGED <<pc, call, image, data, hideLocals, password, extractLocals,
                   outcome, embedded>>
    /\ UNCHANGED disabled

SharedInit == Init /\ image \in SharedImages

SharedNext ==
    \/ Next
    \/ \E buf \in OtherBuffers : OtherCall(buf)

SpecShared == SharedInit /\ [][SharedNext]_vars

\* The collection loop of extractData, its exit included.
CollectionLoop == CollectBits \/ CollectDone

\* The executor of the promise runs synchronously: while the collection loop
\* has an iteration to run, or its exit to take, it does so.
FairSpec == Spec /\ WF_vars(CollectionLoop)

(* ------------------ whole calls as functions of the buffer ------------- *)

\* The payload bits whose iteration of the payload loop stores into sample p.
Writers(bits, p) ==
    { k \in 0..(Len(bits) - 1) : DataIndex(k) = p /\ ~IsAlpha(p) }

\* The buffer hideData leaves when it accepts the container: the header loop,
\* then the payload loop, the last iteration that stores into a sample
\* deciding its low bit.
HiddenBuffer(buf, container) ==
    LET bits == textToBinary(container)
        h == WriteHeader(buf, numberToBinary(Len(container), HeaderBits))
    IN  [p1 \in 1..Len(buf) |->
            IF Writers(bits, p1 - 1) = {} THEN h[p1]
            ELSE SetLSB(h[p1],
                        bits[(CHOOSE k \in Writers(bits, p1 - 1) :
                                 \A j \in Writers(bits, p1 - 1) : j <= k) + 1])]

\* The index at which the collection loop reads its k-th bit (k from 0): the
\* k-th index from 32 on that is not an alpha index.
ScanIndex(k) == HeaderBits + k + (k \div 3)

\* The settlement of extractData on the buffer; Pending when the collection
\* loop needs a bit beyond the buffer and so never ends.
ExtractResult(buf, pw) ==
    LET len == ParseLength(ReadLengthBinary(buf))
        n == len.lo * CharBits
    IN  IF LengthInvalid(len, buf) THEN Rejected("NoHiddenData", 0)
        ELSE IF ScanIndex(n - 1) >= Len(buf) THEN Pending
        ELSE UnframeOutcome(
                 binaryToText([k \in 1..n |-> buf[ScanIndex(k - 1) + 1] % 2]), pw)

(* ---------------------- hideData after hideData ------------------------ *)

\* The buffers given to the first of several hideData calls.
TwiceImages == { PlainImage(MaxWidth, h, "mixed") : h \in {MaxHeight - 1, MaxHeight} }

\* The texts given to them.
TwiceTexts == {<< >>, <<97, 98, 97>>}

\* The buffer, of the size of buf, that the first hideData call was given.
BaseOf(buf) == CHOOSE b \in TwiceImages : Len(b) = Len(buf)

\* hideData, up to the capacity check, on an image that an earlier hideData
\* call produced. (Calls on images that already hold bits of two containers
\* are left out.)
HideDataAgain(t, pw, salt) ==
    /\ pc = "idle"
    /\ embedded.done
    /\ image = HiddenBuffer(BaseOf(image), embedded.dataToHide)
    /\ call' = "hideData"
    /\ data' = image
    /\ maxDataSize' = Capacity(image)
    /\ text' = t
    /\ password' = pw
    /\ LET processedText == IF pw /= << >> THEN Encrypt(t, pw, salt) ELSE t
           framed == Frame(processedText, pw)
       IN  /\ dataToHide' = framed
           /\ IF Len(framed) > Capacity(image)
              THEN /\ pc' = "settled"
                   /\ outcome' = Rejected("CapacityExceeded", Capacity(image))
                   /\ UNCHANGED binaryData
              ELSE /\ pc' = "WriteHeader"
                   /\ outcome' = Pending
                   /\ binaryData' = textToBinary(framed)
    /\ UNCHANGED <<image, extractLocals, embedded>>
    /\ UNCHANGED disabled

TwiceInit == Init /\ image \in TwiceImages

TwiceNext ==
    \/ \E t \in TwiceTexts, pw \in Passwords : HideData(t, pw, 65)
    \/ \E t \in TwiceTexts, pw \in Passwords : HideDataAgain(t, pw, 65)
    \/ HideHeader
    \/ HidePayload
    \/ HideDone
    \/ \E pw \in Passwords : ExtractData(pw)
    \/ ReadHeader
    \/ ValidateLength
    \/ CollectBits
    \/ CollectDone
    \/ Unframe
    \/ Return

SpecTwice == TwiceInit /\ [][TwiceNext]_vars

(* ------------------- the conversions on their own ---------------------- *)

\* Character codes (charCodeAt yields 0 .. 65535): the ends of the 8-bit
\* range, a letter, and codes beyond 255.
ConvAlphabet == {0, 97, 255, 256, 300}

ConvTexts == UNION { [1..n -> ConvAlphabet] : n \in 0..MaxConvLen }

\* '0'.repeat(8 - bin.length) throws a RangeError when bin has more than 8 digits.
RepeatThrows(t) == \E k \in 1..Len(t) : Len(ToString2(t[k])) > CharBits

\* textToBinary of src/unnamed/part_000 where it returns:
\* '0'.repeat(8 - bin.length) + bin for every character.
textToBinary_part000(t) ==
    [k \in 1..(CharBits * Len(t)) |->
        LET bin == ToString2(t[((k - 1) \div CharBits) + 1])
            j == ((k - 1) % CharBits) + 1
        IN  IF j <= CharBits - Len(bin) THEN 0 ELSE bin[j - (CharBits - Len(bin))]]

ConvInit ==
    /\ text \in ConvTexts
    /\ pc = "idle"
    /\ call = "none"
    /\ image = << >>
    /\ data = << >>
    /\ maxDataSize = 0
    /\ password = << >>
    /\ dataToHide = << >>
    /\ binaryData = << >>
    /\ length = NoLength
    /\ bitsToExtract = 0
    /\ i = 0
    /\ bitCount = 0
    /\ extractedBinary = << >>
    /\ extractedText = << >>
    /\ outcome = Pending
    /\ embedded = NoEmbed
    /\ disabled = NoneDisabled

\* textToBinary(text) of src/static/steganography.js.
EncodeText ==
    /\ pc = "idle"
    /\ call' = "textToBinary"
    /\ binaryData' = textToBinary(text)
    /\ pc' = "encoded"
    /\ UNCHANGED <<image, data, maxDataSize, text, password, dataToHide,
                   extractLocals, outcome, embedded>>
    /\ UNCHANGED disabled

\* textToBinary(text) of src/unnamed/part_000.
EncodeText_part000 ==
    /\ pc = "idle"
    /\ call' = "textToBinary_part000"
    /\ IF RepeatThrows(text)
       THEN /\ pc' = "threw"
            /\ outcome' = Rejected("RangeError", 0)
            /\ UNCHANGED binaryData
       ELSE /\ pc' = "encoded"
            /\ binaryData' = textToBinary_part000(text)
            /\ UNCHANGED outcome
    /\ UNCHANGED <<image, data, maxDataSize, text, password, dataToHide,
                   extractLocals, embedded>>
    /\ UNCHANGED disabled

\* binaryToText(binary) of src/static/steganography.js on the bits produced.
DecodeBits ==
    /\ pc = "encoded"
    /\ extractedText' = binaryToText(binaryData)
    /\ pc' = "decoded"
    /\ UNCHANGED <<call, image, data, maxDataSize, hideLocals, password, length,
                   bitsToExtract, i, bitCount, extractedBinary, outcome, embedded>>
    /\ UNCHANGED disabled

ConvNext == EncodeText \/ EncodeText_part000 \/ DecodeBits

SpecConv == ConvInit /\ [][ConvNext]_vars

(* --------------------- binaryToText on its own ------------------------- *)

BitStrings == UNION { [1..n -> {0, 1}] : n \in 0..MaxBits }

\* binary.padEnd(Math.ceil(binary.length / 8) * 8, '0')
PadEnd8(binary) ==
    binary \o [k \in 1..((CharBits - (Len(binary) % CharBits)) % CharBits) |-> 0]

\* A binaryToText of src/unnamed/part_000 that leaves the padding out.
binaryToText_part000_NoPad(binary) ==
    [k \in 1..(Len(binary) \div CharBits) |->
        ParseInt2(SubSeq(binary, CharBits * (k - 1) + 1, CharBits * k))]

\* binaryToText of src/unnamed/part_000: the bits are padded to a multiple of
\* 8 and every group of 8 becomes a character.
binaryToText_part000(binary) ==
    [k \in 1..(Len(PadEnd8(binary)) \div CharBits) |->
        ParseInt2(SubSeq(PadEnd8(binary), CharBits * (k - 1) + 1, CharBits * k))]

BitsInit ==
    /\ extractedBinary \in BitStrings
    /\ pc = "idle"
    /\ call = "none"
    /\ image = << >>
    /\ data = << >>
    /\ maxDataSize = 0
    /\ text = << >>
    /\ password = << >>
    /\ dataToHide = << >>
    /\ binaryData = << >>
    /\ length = NoLength
    /\ bitsToExtract = 0
    /\ i = 0
    /\ bitCount = 0
    /\ extractedText = << >>
    /\ outcome = Pending
    /\ embedded = NoEmbed
    /\ disabled = NoneDisabled

\* binaryToText(binary) of src/static/steganography.js.
BinaryToText ==
    /\ pc = "idle"
    /\ call' = "binaryToText"
    /\ extractedText' = binaryToText(extractedBinary)
    /\ pc' = "converted"
    /\ UNCHANGED <<image, data, maxDataSize, hideLocals, password, length,
                   bitsToExtract, i, bitCount, extractedBinary, outcome, embedded>>
    /\ UNCHANGED disabled

\* binaryToText(binary) of src/unnamed/part_000.
BinaryToText_part000 ==
    /\ pc = "idle"
    /\ call' = "binaryToText_part000"
    /\ extractedText' = binaryToText_part000(extractedBinary)
    /\ pc' = "converted"
    /\ UNCHANGED <<image, data, maxDataSize, hideLocals, password, length,
                   bitsToExtract, i, bitCount, extractedBinary, outcome, embedded>>
    /\ UNCHANGED disabled

BitsNext == BinaryToText \/ BinaryToText_part000

SpecBits == BitsInit /\ [][BitsNext]_vars

(* ------------------ Encryption: the Caesar cipher ---------------------- *)

\* Characters at and next to the ends of A-Z and a-z, and a space.
CaesarAlphabet == {32, 64, 65, 90, 91, 96, 97, 122, 123}

CaesarTexts == UNION { [1..n -> CaesarAlphabet] : n \in 0..MaxCaesarLen }

\* n in decimal digits, 0 <= n <= 99.
Decimal(n) == IF n < 10 THEN <<48 + n>> ELSE <<48 + (n \div 10), 48 + (n % 10)>>

\* The shift as the caller passes it (the value of an input field, or a
\* number, which parseInt turns into a string first): 0 .. 27, and
\* '-1', '25.5', '0.5', '7x', 'x', '1e1'.
Shifts ==
    { Decimal(n) : n \in 0..27 }
    \cup { <<45, 49>>, <<50, 53, 46, 53>>, <<48, 46, 53>>, <<55, 120>>, <<120>>,
           <<49, 101, 49>> }

IsDigit(c) == c >= 48 /\ c <= 57

\* parseInt(s): an optional sign, then the longest run of digits, what
\* follows being ignored; NaN when there is no digit there.
ParseInt10(s) ==
    LET neg == Len(s) > 0 /\ s[1] = 45
        body == IF neg THEN Tail(s) ELSE s
        n == IF \E k \in 1..Len(body) : ~IsDigit(body[k])
             THEN (CHOOSE k \in 1..Len(body) :
                      /\ ~IsDigit(body[k])
                      /\ \A j \in 1..(k - 1) : IsDigit(body[j])) - 1
             ELSE Len(body)
        v[k \in 0..n] == IF k = 0 THEN 0 ELSE 10 * v[k - 1] + (body[k] - 48)
    IN  [nan |-> n = 0, value |-> IF neg THEN 0 - v[n] ELSE v[n]]

\* isNaN(shift) || shift < 1 || shift > 25
ShiftRejected(s) ==
    ParseInt10(s).nan \/ ParseInt10(s).value < 1 \/ ParseInt10(s).value > 25

\* The map callback of caesarCipher and caesarDecipher: one character rotated.
Rotate(code, by) ==
    IF code >= 65 /\ code <= 90 THEN ((code - 65 + by) % 26) + 65
    ELSE IF code >= 97 /\ code <= 122 THEN ((code - 97 + by) % 26) + 97
    ELSE code

CaesarInit ==
    /\ text \in CaesarTexts
    /\ password \in Shifts
    /\ pc = "idle"
    /\ call = "none"
    /\ image = << >>
    /\ data = << >>
    /\ maxDataSize = 0
    /\ dataToHide = << >>
    /\ binaryData = << >>
    /\ length = NoLength
    /\ bitsToExtract = 0
    /\ i = 0
    /\ bitCount = 0
    /\ extractedBinary = << >>
    /\ extractedText = << >>
    /\ outcome = Pending
    /\ embedded = NoEmbed
    /\ disabled = NoneDisabled

\* caesarCipher(text, shift); the shift is in `password`, the result in `dataToHide`.
CaesarCipher ==
    /\ pc = "idle"
    /\ call' = "caesarCipher"
    /\ IF ShiftRejected(password)
       THEN /\ pc' = "threw"
            /\ outcome' = Rejected("ShiftError", 0)
            /\ UNCHANGED dataToHide
       ELSE /\ pc' = "ciphered"
            /\ dataToHide' = [k \in 1..Len(text) |-> Rotate(text[k], ParseInt10(password).value)]
            /\ UNCHANGED outcome
    /\ UNCHANGED <<image, data, maxDataSize, text, password, binaryData,
                   extractLocals, embedded>>
    /\ UNCHANGED disabled

\* caesarDecipher(ciphered, shift) with the same shift; the result in `extractedText`.
CaesarDecipher ==
    /\ pc = "ciphered"
    /\ call' = "caesarDecipher"
    /\ IF ShiftRejected(password)
       THEN /\ pc' = "threw"
            /\ outcome' = Rejected("ShiftError", 0)
            /\ UNCHANGED extractedText
       ELSE /\ pc' = "deciphered"
            /\ extractedText' =
                  [k \in 1..Len(dataToHide) |->
                      Rotate(dataToHide[k], 26 - ParseInt10(password).value)]
            /\ UNCHANGED outcome
    /\ UNCHANGED <<image, data, maxDataSize, hideLocals, password, length,
                   bitsToExtract, i, bitCount, extractedBinary, embedded>>
    /\ UNCHANGED disabled

CaesarNext == CaesarCipher \/ CaesarDecipher

SpecCaesar == CaesarInit /\ [][CaesarNext]_vars

(* ------------------- the click handlers of the buttons ------------------ *)

\* Where the handler of each button stands: "idle" (no click in progress),
\* "loading" (img.src assigned, the browser decodes the file), "awaiting"
\* (img.onload runs and awaits the promise of the codec), "loadFailed" (the
\* browser fired the error event of the image, for which no handler is
\* registered), "hung" (the executor of extractData never leaves its loop).
NoClick == [b \in Buttons |-> "idle"]

\* The last toast each handler showed.
NoToast == [b \in Buttons |-> "none"]

ButtonInit ==
    /\ pc = NoClick
    /\ disabled = NoneDisabled
    /\ outcome = NoToast
    /\ call = "none"
    /\ image = << >>
    /\ data = << >>
    /\ maxDataSize = 0
    /\ text = << >>
    /\ password = << >>
    /\ dataToHide = << >>
    /\ binaryData = << >>
    /\ length = NoLength
    /\ bitsToExtract = 0
    /\ i = 0
    /\ bitCount = 0
    /\ extractedBinary = << >>
    /\ extractedText = << >>
    /\ embedded = NoEmbed

codecState ==
    <<call, image, data, maxDataSize, hideLocals, password, extractLocals, embedded>>

\* The page runs on one thread: while the executor of extractData spins,
\* no event of the page is dispatched.
ThreadFree == \A b \in Buttons : pc[b] /= "hung"

\* A click that passes the input checks: the button is disabled, the image
\* element is created and given the file; a disabled button gets no click.
Click(b) ==
    /\ ThreadFree
    /\ pc[b] = "idle"
    /\ ~disabled[b]
    /\ disabled' = [disabled EXCEPT ![b] = TRUE]
    /\ pc' = [pc EXCEPT ![b] = "loading"]
    /\ UNCHANGED <<outcome, codecState>>

\* The same click when creating the image element or the object URL throws:
\* the outer catch shows the error and enables the button again.
ClickThrows(b) ==
    /\ ThreadFree
    /\ pc[b] = "idle"
    /\ ~disabled[b]
    /\ disabled' = [disabled EXCEPT ![b] = FALSE]
    /\ outcome' = [outcome EXCEPT ![b] = "error"]
    /\ UNCHANGED <<pc, codecState>>

\* The file decodes: img.onload starts and awaits the codec.
ImageLoaded(b) ==
    /\ ThreadFree
    /\ pc[b] = "loading"
    /\ pc' = [pc EXCEPT ![b] = "awaiting"]
    /\ UNCHANGED <<disabled, outcome, codecState>>

\* The file does not decode: the browser fires the error event of the image;
\* the handlers register img.onload only, so no code of the page runs.
ImageError(b) ==
    /\ ThreadFree
    /\ pc[b] = "loading"
    /\ pc' = [pc EXCEPT ![b] = "loadFailed"]
    /\ UNCHANGED <<disabled, outcome, codecState>>

\* The promise of the codec resolves: success toast, then the finally block.
CodecResolved(b) ==
    /\ ThreadFree
    /\ pc[b] = "awaiting"
    /\ outcome' = [outcome EXCEPT ![b] = "success"]
    /\ disabled' = [disabled EXCEPT ![b] = FALSE]
    /\ pc' = [pc EXCEPT ![b] = "idle"]
    /\ UNCHANGED codecState

\* The promise of the codec rejects: error toast, then the finally block.
CodecRejected(b) ==
    /\ ThreadFree
    /\ pc[b] = "awaiting"
    /\ outcome' = [outcome EXCEPT ![b] = "error"]
    /\ disabled' = [disabled EXCEPT ![b] = FALSE]
    /\ pc' = [pc EXCEPT ![b] = "idle"]
    /\ UNCHANGED codecState

\* extractData is given a header whose bits the image cannot supply: its
\* collection loop never ends, the promise never settles.
CodecNeverSettles ==
    /\ ThreadFree
    /\ pc["extractDataBtn"] = "awaiting"
    /\ pc' = [pc EXCEPT !["extractDataBtn"] = "hung"]
    /\ UNCHANGED <<disabled, outcome, codecState>>

\* What the browser and the codec do for a click in progress.
ButtonEvents(b) ==
    \/ ImageLoaded(b)
    \/ ImageError(b)
    \/ CodecResolved(b)
    \/ CodecRejected(b)

ButtonNext ==
    \/ \E b \in Buttons : Click(b)
    \/ \E b \in Buttons : ClickThrows(b)
    \/ \E b \in Buttons : ImageLoaded(b)
    \/ \E b \in Buttons : ImageError(b)
    \/ \E b \in Buttons : CodecResolved(b)
    \/ \E b \in Buttons : CodecRejected(b)
    \/ CodecNeverSettles

SpecButton == ButtonInit /\ [][ButtonNext]_vars

\* The browser ends every image load with a load or an error event, and a
\* codec call that can settle does.
FairButton == SpecButton /\ \A b \in Buttons : WF_vars(ButtonEvents(b))

(* ------------------------------ properties ----------------------------- *)

\* An extractData call has settled on an image that a hideData call produced.
ExtractedFromEmbedded == call = "extractData" /\ pc = "settled" /\ embedded.done

\* An extractData call has settled after decoding text (not at the length check).
ExtractUnframed == call = "extractData" /\ pc = "settled" /\ outcome.kind /= "NoHiddenData"

\* Bit k (0 = most significant) of n written as a 32-bit unsigned integer, n < 2^31.
BitOf(n, k) == IF k = 0 THEN 0 ELSE (n \div (2 ^ (HeaderBits - 1 - k))) % 2

\* The offsets at which a tag begins in x.
TagStarts(x) == Occurrences(x, TXT) \cup Occurrences(x, ENC)

\* The decoded text up to its first end marker, all of it when there is none.
BeforeMarker(x) == IF Includes(x, EOF) THEN Substring(x, 0, IndexOf(x, EOF)) ELSE x

\* No tag lies entirely within the first 20 characters of the text.
NoTagInWindow(x) == \A k \in TagStarts(x) : k + Len(TXT) > SearchWindow

\* The characters of x in 0x20..0x7E.
Printable(x) == SelectSeq(x, LAMBDA c : c \in 32..126)

\* C1: round trip. Whenever extractData settles on an image into which
\* hideData embedded text T without a password, it has resolved with exactly T.
C1_RoundTrip ==
    (ExtractedFromEmbedded /\ embedded.password = << >>)
        => (outcome.settled = "resolved" /\ outcome.value = embedded.text)

\* C2: capacity boundary. hideData rejects with CapacityExceeded exactly when
\* the framed length exceeds the capacity less the 32-bit (4-byte) header.
C2_CapacityBoundary ==
    (call = "hideData")
        => ((pc = "settled" /\ outcome.kind = "CapacityExceeded")
              <=> (Len(dataToHide) > Capacity(data) - (HeaderBits \div CharBits)))

\* C3: extract terminates. The collection loop is over once the scan index
\* has reached the end of the buffer: it never runs with the index beyond it.
C3_ScanStopsAtEnd ==
    (call = "extractData" /\ pc = "CollectBits") => i <= Len(data)

\* C4: header fidelity. Once hideData has written the header of a container of
\* length n, bit 0 of sample k (k < 32) is bit k of n, most significant first,
\* through the payload writes; and the length extractData reads from an
\* embedded image is the length of the container embedded.
C4_HeaderFidelity ==
    /\ (call = "hideData" /\ pc \in {"WritePayload", "settled"} /\ outcome.settled /= "rejected")
          => \A k \in 0..(HeaderBits - 1) : LSBAt(data, k) = BitOf(Len(dataToHide), k)
    /\ (call = "extractData" /\ embedded.done /\ pc /= "ReadHeader")
          => length = [hi |-> 0, lo |-> Len(embedded.dataToHide)]

\* C4 witness: extractData has read the header of an image carrying a
\* container of 13 characters or more.
C4_Witness ==
    /\ call = "extractData" /\ embedded.done /\ pc = "ValidateLength"
    /\ length.lo = Len(embedded.dataToHide) /\ length.lo >= 13

\* C5: alpha preservation. While and after hideData writes the payload, every
\* alpha sample at index 32 or more holds the value it had in the image.
C5_AlphaPreserved ==
    (call = "hideData")
        => \A p \in HeaderBits..(Len(data) - 1) : IsAlpha(p) => data[p + 1] = image[p + 1]

\* C5 witness: hideData resolved and the payload changed a sample beyond the header.
C5_Witness ==
    /\ call = "hideData" /\ pc = "settled" /\ outcome.settled = "resolved"
    /\ \E p \in HeaderBits..(Len(data) - 1) : data[p + 1] /= image[p + 1]

\* C6 as claimed: the decoded text has no end marker and a tag begins within
\* its first 20 characters; then the tag is identified (the call neither fails
\* for lack of a format nor falls back to partial recovery), and when the only
\* tag there is TXT: the call resolves with the content after it.
C6_TagStartsInWindow ==
    (ExtractUnframed /\ ~Includes(extractedText, EOF)
       /\ \E k \in TagStarts(extractedText) : k < SearchWindow)
        => /\ outcome.kind \notin {"ExtractionFailed", "UnknownFormat", "partial"}
           /\ (\A k \in Occurrences(extractedText, ENC) : k >= SearchWindow)
                 => outcome = Resolved("plaintext",
                        SubstringFrom(extractedText, IndexOf(extractedText, TXT) + Len(TXT)))

\* C6 amended: the same for a tag that lies entirely within the first 20
\* characters (it begins at offset 16 or less).
C6_TagInsideWindow ==
    (ExtractUnframed /\ ~Includes(extractedText, EOF)
       /\ \E k \in TagStarts(extractedText) : k + Len(TXT) <= SearchWindow)
        => /\ outcome.kind \notin {"ExtractionFailed", "UnknownFormat", "partial"}
           /\ (\A k \in Occurrences(extractedText, ENC) : k + Len(ENC) > SearchWindow)
                 => outcome = Resolved("plaintext",
                        SubstringFrom(extractedText, IndexOf(extractedText, TXT) + Len(TXT)))

\* C6 witness: no end marker, TXT: found after leading characters, content returned.
C6_Witness ==
    /\ ExtractUnframed /\ ~Includes(extractedText, EOF)
    /\ IndexOf(extractedText, TXT) > 0
    /\ outcome.kind = "plaintext"

\* C7: password required. An image embedded with a password carries an ENC:
\* container, and extractData without a password on it ends, rejecting with
\* the password-required error: it does not scan beyond the buffer and it
\* settles no other way.
C7_PasswordRequired ==
    (call = "extractData" /\ embedded.done /\ embedded.password /= << >> /\ password = << >>)
        => /\ StartsWith(embedded.dataToHide, ENC)
           /\ pc = "CollectBits" => i <= Len(data)
           /\ pc = "settled" => outcome = Rejected("PasswordRequired", 0)

\* C8: oversized input. When hideData rejects with CapacityExceeded the error
\* carries floor(pixelCount * 3 / 8) and no sample of the buffer has changed.
C8_RejectedUntouched ==
    (call = "hideData" /\ outcome.kind = "CapacityExceeded")
        => /\ outcome.max = ((Len(image) \div 4) * 3) \div 8
           /\ data = image

\* C8 witness: a 2x2 image rejects, reporting a maximum of 1.
C8_Witness ==
    /\ call = "hideData" /\ outcome.kind = "CapacityExceeded"
    /\ Len(image) = 16 /\ outcome.max = 1

\* C9: length validation. Past the length check, extractData has rejected
\* with NoHiddenData exactly when the header value is 0 or exceeds the number
\* of pixels; otherwise it is collecting bits or beyond.
C9_LengthValidation ==
    (call = "extractData" /\ pc \notin {"ReadHeader", "ValidateLength"})
        => /\ (outcome.kind = "NoHiddenData")
                <=> \/ (\A k \in 0..(HeaderBits - 1) : LSBAt(data, k) = 0)
                    \/ length.hi > 0
                    \/ length.lo > Len(data) \div 4
           /\ (outcome.kind /= "NoHiddenData") => pc \in {"CollectBits", "Unframe", "settled"}
           /\ (outcome.kind = "NoHiddenData") => (pc = "settled" /\ extractedBinary = << >>)

\* C9 witness: a header equal to the number of pixels passes the check.
C9_Witness ==
    /\ call = "extractData" /\ pc = "CollectBits"
    /\ length.hi = 0 /\ length.lo * 4 = Len(data)

DimensionsOf(buf) ==
    { d \in Widths \X Heights : ChannelsPerPixel * d[1] * d[2] = Len(buf) }

\* C11 as claimed: in both variants of the class calculateMaxTextLength
\* returns floor(w * h * 3 / 8), the maximum hideData enforces on the image.
C11_AllVariants ==
    (call = "hideData")
        => \A d \in DimensionsOf(data) :
              /\ calculateMaxTextLength(d[1], d[2]) = (d[1] * d[2] * 3) \div 8
              /\ calculateMaxTextLength(d[1], d[2]) = maxDataSize
              /\ calculateMaxTextLength_part000(d[1], d[2]) = (d[1] * d[2] * 3) \div 8
              /\ calculateMaxTextLength_part000(d[1], d[2]) = maxDataSize

\* C11 amended: the variant of src/static/steganography.js returns
\* floor(w * h * 3 / 8), the maximum hideData enforces; the variant of
\* src/unnamed/part_000 returns 20 less than that maximum.
C11_CapacityFromDimensions ==
    (call = "hideData")
        => \A d \in DimensionsOf(data) :
              /\ calculateMaxTextLength(d[1], d[2]) = (d[1] * d[2] * 3) \div 8
              /\ calculateMaxTextLength(d[1], d[2]) = maxDataSize
              /\ calculateMaxTextLength_part000(d[1], d[2]) = maxDataSize - 20

\* C11 witness: hideData checks a container against the capacity of an
\* image of 32 pixels or more, whose dimensions are among those offered.
C11_Witness ==
    /\ call = "hideData" /\ DimensionsOf(data) /= {}
    /\ maxDataSize >= 12 /\ outcome.kind /= "CapacityExceeded"


\* C12: only least-significant bits change. In every state of a hideData call
\* the buffer has the image's length and every sample agrees with the image's
\* in its seven high-order bits.
C12_OnlyLSBsChange ==
    (call = "hideData")
        => /\ Len(data) = Len(image)
           /\ \A p \in 1..Len(data) : data[p] \div 2 = image[p] \div 2

\* A hideData call has resolved after changing samples of the header and of
\* the payload region.
C12_Witness ==
    /\ call = "hideData" /\ pc = "settled" /\ outcome.settled = "resolved"
    /\ \E p \in 1..HeaderBits : data[p] /= image[p]
    /\ \E p \in (HeaderBits + 1)..Len(data) : data[p] /= image[p]


\* C13: extract is read-only. In every state of an extractData call, whatever
\* its path (rejection at the length check, collection, any outcome of the
\* unframing), the buffer equals the samples of the image it was given.
C13_ExtractReadOnly ==
    (call = "extractData") => data = image

\* An extractData call has collected bits and settled.
C13_Witness ==
    /\ call = "extractData" /\ pc = "settled"
    /\ bitCount > 0 /\ bitCount = bitsToExtract
    /\ data = image


\* The ciphertext string that a hideData call with a password framed between
\* 'ENC:' and '<<EOF>>'.
FramedCiphertext(container) == Substring(container, Len(ENC), Len(container) - Len(EOF))

\* The string extractData passes to CryptoJS.AES.decrypt when it has a password.
HandedToDecrypt(x) == ProcessedText(CleanText(x))

\* C14: ciphertext integrity. Whenever extractData, given a password, settles
\* on an image into which hideData embedded with a password, the tag it found
\* is 'encrypted' and the string it handed to the decryption function is
\* exactly the ciphertext hideData framed after 'ENC:'.
C14_CiphertextIntegrity ==
    (ExtractedFromEmbedded /\ embedded.password /= << >> /\ password /= << >>)
        => /\ DataType(CleanText(extractedText)) = "encrypted"
           /\ HandedToDecrypt(extractedText) = FramedCiphertext(embedded.dataToHide)


\* The steps of an extractData call follow the order
\* ReadHeader, ValidateLength, CollectBits, Unframe, settled.
ExtractOrder ==
    (call' = "extractData")
        => \/ pc' = pc
           \/ pc = "idle" /\ pc' = "ReadHeader"
           \/ pc = "ReadHeader" /\ pc' = "ValidateLength"
           \/ pc = "ValidateLength" /\ pc' \in {"CollectBits", "settled"}
           \/ pc = "CollectBits" /\ pc' = "Unframe"
           \/ pc = "Unframe" /\ pc' = "settled"

\* The promise of an extractData call settles at most once, when the call
\* reaches its end, and NoHiddenData is raised only at ValidateLength.
SettlesAtMostOnce ==
    (call = "extractData" /\ call' = "extractData")
        => /\ (outcome.settled /= "pending") => (outcome' = outcome)
           /\ (outcome' /= outcome) => (pc /= "settled" /\ pc' = "settled")
           /\ (outcome'.kind = "NoHiddenData" /\ outcome' /= outcome)
                 => (pc = "ValidateLength" /\ bitCount = 0 /\ extractedBinary = << >>)

\* A settled extractData call has exactly one outcome of the kinds the code has.
OneOutcome ==
    (call = "extractData")
        => /\ (pc = "settled") <=> (outcome.settled /= "pending")
           /\ (outcome.settled = "resolved")
                 => outcome.kind \in {"plaintext", "decrypted", "partial"}
           /\ (outcome.settled = "rejected")
                 => outcome.kind \in {"NoHiddenData", "ExtractionFailed", "PasswordRequired",
                                      "DecryptionFailed", "UnknownFormat"}

\* C15: single terminal outcome. Every extractData call goes through
\* ReadHeader, ValidateLength, CollectBits, Unframe in that order, its promise
\* settles exactly once with one of plaintext, decrypted text, partial recovery
\* or a rejection, and NoHiddenData is raised only at ValidateLength, before
\* any payload bit is read. "Exactly once" is never twice (SettlesAtMostOnce)
\* and at least once; every step but the collection loop is straight-line
\* code, so the call settles if and only if the loop, once entered, is left.
C15_SingleTerminalOutcome ==
    /\ []OneOutcome
    /\ [][ExtractOrder /\ SettlesAtMostOnce]_vars
    /\ ((call = "extractData" /\ pc = "CollectBits") ~> (pc = "Unframe"))

\* The parts of C15 that hold: order, at most one settlement, kinds of outcome.
C15_SafetyPart == []OneOutcome /\ [][ExtractOrder /\ SettlesAtMostOnce]_vars


\* C16: no cross-call interference. Whatever other calls on the instance do to
\* maxDataSize before, during and after a hideData call, the call is rejected
\* exactly when its container is longer than floor(pixels * 3 / 8) of its own
\* buffer, and that number is the maximum its CapacityExceeded error reports.
C16_OwnCapacity ==
    (call = "hideData")
        => LET own == ((Len(data) \div 4) * 3) \div 8
           IN  /\ (outcome.kind = "CapacityExceeded")
                     => (outcome.max = own /\ Len(dataToHide) > own)
               /\ (outcome.kind /= "CapacityExceeded") => Len(dataToHide) <= own

\* A hideData call has been rejected with its own capacity while the shared
\* field holds the capacity of another call's buffer.
C16_Witness ==
    /\ call = "hideData" /\ pc = "settled" /\ outcome.kind = "CapacityExceeded"
    /\ outcome.max = ((Len(data) \div 4) * 3) \div 8
    /\ maxDataSize /= outcome.max


\* C17: symmetric addressing. Whenever the collection loop of extractData is
\* about to read its bitCount-th bit (the scan index is inside the buffer and
\* not an alpha sample), the sample it reads is the one hideData writes
\* payload bit bitCount to: 32 + bitCount + floor((32 + bitCount) / 3).
C17_SymmetricAddressing ==
    (/\ call = "extractData" /\ pc = "CollectBits"
     /\ bitCount < bitsToExtract /\ ~IsAlpha(i) /\ i < Len(data))
        => i = DataIndex(bitCount)


\* An extractData call has settled after the end marker was looked for and the
\* text went on to tag detection.
TagDetectionDone ==
    ExtractUnframed /\ outcome.kind /= "ExtractionFailed"

\* C18: end-marker truncation. The text that goes on to tag detection is the
\* decoded text up to the first '<<EOF>>' when it has one or more, and the
\* whole decoded text when it has none; a plaintext result is what follows the
\* tag in that text, and a partial recovery is its printable characters.
C18_EndMarkerTruncation ==
    TagDetectionDone
        => /\ CleanText(extractedText) = BeforeMarker(extractedText)
           /\ (~Includes(extractedText, EOF)) => CleanText(extractedText) = extractedText
           /\ (outcome.kind = "plaintext")
                 => \E k \in TagStarts(BeforeMarker(extractedText)) :
                       outcome.value = SubstringFrom(BeforeMarker(extractedText), k + Len(TXT))
           /\ (outcome.kind = "partial")
                 => outcome.value = PartialPrefix \o Printable(BeforeMarker(extractedText))

\* The decoded text holds the end marker twice with text between, and the
\* call resolved with the plaintext before the first.
C18_Witness ==
    /\ TagDetectionDone /\ outcome.kind = "plaintext"
    /\ \E j, k \in Occurrences(extractedText, EOF) : j + Len(EOF) < k
    /\ outcome.value = <<97, 98>>


\* The offsets at which pat lies entirely within the first 20 characters of x.
InWindow(x, pat) == { k \in Occurrences(x, pat) : k + Len(pat) <= 20 }

\* The least element of a non-empty set of offsets.
First(S) == CHOOSE k \in S : \A j \in S : k <= j

\* C19: tag search window. When the truncated text does not start with a tag:
\* if 'ENC:' lies entirely within its first 20 characters the format is
\* encrypted and the content is what follows the first 'ENC:' (without a
\* password the call rejects, with one it decrypts that content); otherwise if
\* 'TXT:' lies entirely within them the call resolves with what follows the
\* first 'TXT:'; otherwise (every tag begins at offset 17 or later, or there
\* is none) the tag is unknown: partial recovery or the unknown-format error.
C19_TagSearchWindow ==
    LET clean == BeforeMarker(extractedText)
        enc == InWindow(clean, ENC)
        txt == InWindow(clean, TXT)
    IN  (TagDetectionDone /\ ~StartsWith(clean, ENC) /\ ~StartsWith(clean, TXT))
            => IF enc /= {}
               THEN LET content == SubstringFrom(clean, First(enc) + 4)
                    IN  /\ DataType(clean) = "encrypted"
                        /\ ProcessedText(clean) = content
                        /\ (password = << >>) => outcome = Rejected("PasswordRequired", 0)
                        /\ (password /= << >>)
                              => outcome = IF Decrypt(content, password) = << >>
                                           THEN Rejected("DecryptionFailed", 0)
                                           ELSE Resolved("decrypted", Decrypt(content, password))
               ELSE IF txt /= {}
               THEN /\ DataType(clean) = "plaintext"
                    /\ outcome = Resolved("plaintext", SubstringFrom(clean, First(txt) + 4))
               ELSE /\ DataType(clean) = "unknown"
                    /\ outcome.kind \in {"partial", "UnknownFormat"}

\* Tags at the edge of the window: a call has decrypted the content after an
\* 'ENC:' that begins at offset 16.
C19_Witness ==
    /\ TagDetectionDone /\ outcome = Resolved("decrypted", <<97, 98>>)
    /\ InWindow(BeforeMarker(extractedText), ENC) = {16}

\* A tag that begins at offset 17 is not recognised.
C19_BeyondWindow ==
    /\ TagDetectionDone /\ outcome.kind \in {"partial", "UnknownFormat"}
    /\ 17 \in TagStarts(BeforeMarker(extractedText))


\* C20: eight bits per character. For every text, codes above 255 included,
\* textToBinary returns (it does not throw), the result has 8 * text.length
\* bits, bit j of character k being bit 7 - j of its code, and binaryToText
\* of the result is the text.
C20_EightBitsPerChar ==
    /\ pc /= "threw"
    /\ (pc \in {"encoded", "decoded"})
          => /\ Len(binaryData) = 8 * Len(text)
             /\ \A k \in 1..Len(text) : \A j \in 0..7 :
                   (8 * (k - 1) + j + 1 <= Len(binaryData))
                      => binaryData[8 * (k - 1) + j + 1] = (text[k] \div (2 ^ (7 - j))) % 2
    /\ (pc = "decoded") => extractedText = text

\* The part of C20 that holds: for texts of codes 0 .. 255 both variants
\* return 8 bits per character, most significant first, and the round trip
\* is the identity.
C20_Latin1 ==
    (\A k \in 1..Len(text) : text[k] <= 255) => C20_EightBitsPerChar


\* Bit g (0-based) of the bit string b, 0 beyond its end.
BitOrZero(b, g) == IF g < Len(b) THEN b[g + 1] ELSE 0

\* The value of the k-th (1-based) group of 8 bits of b, most significant
\* first, the bits beyond the end of b counting as 0.
GroupValue(b, k) ==
    128 * BitOrZero(b, 8 * (k - 1)) + 64 * BitOrZero(b, 8 * (k - 1) + 1)
    + 32 * BitOrZero(b, 8 * (k - 1) + 2) + 16 * BitOrZero(b, 8 * (k - 1) + 3)
    + 8 * BitOrZero(b, 8 * (k - 1) + 4) + 4 * BitOrZero(b, 8 * (k - 1) + 5)
    + 2 * BitOrZero(b, 8 * (k - 1) + 6) + BitOrZero(b, 8 * (k - 1) + 7)

\* C21 as claimed: binaryToText, in either variant, returns ceil(length / 8)
\* characters, the last one being the final group padded with zero bits on
\* the right.
C21_TailPadded ==
    (pc = "converted")
        => /\ Len(extractedText) = (Len(extractedBinary) + 7) \div 8
           /\ \A k \in 1..Len(extractedText) :
                 extractedText[k] = GroupValue(extractedBinary, k)

\* C21 amended: binaryToText of src/unnamed/part_000 returns ceil(length / 8)
\* characters, the last group padded with zeros; binaryToText of
\* src/static/steganography.js returns floor(length / 8) characters, the
\* complete groups only, and drops the bits of an incomplete last group.
C21_TailByVariant ==
    (pc = "converted")
        => /\ Len(extractedText) =
                 IF call = "binaryToText_part000"
                 THEN (Len(extractedBinary) + 7) \div 8
                 ELSE Len(extractedBinary) \div 8
           /\ \A k \in 1..Len(extractedText) :
                 extractedText[k] = GroupValue(extractedBinary, k)

\* The part_000 variant has padded an incomplete last group that holds a 1.
C21_Witness ==
    /\ pc = "converted" /\ call = "binaryToText_part000"
    /\ Len(extractedBinary) % 8 /= 0
    /\ Len(extractedText) = (Len(extractedBinary) \div 8) + 1
    /\ extractedText[Len(extractedText)] /= 0


\* HiddenBuffer and ExtractResult say what the loops of hideData and
\* extractData, run step by step, arrive at.
WholeCallsAgree ==
    /\ (call = "hideData" /\ pc = "settled" /\ outcome.settled = "resolved")
          => data = HiddenBuffer(image, dataToHide)
    /\ (call = "extractData" /\ pc = "settled")
          => outcome = ExtractResult(data, password)
    /\ (call = "extractData" /\ pc = "CollectBits" /\ i > Len(data))
          => ExtractResult(data, password) = Pending
    /\ (call = "extractData" /\ ExtractResult(data, password) = Pending)
          => pc /= "settled"


\* C22: last write wins. Whenever extractData settles on a buffer on which
\* hideData ran with c1 and then with c2, it has settled exactly as it does
\* on the original buffer with c2 alone embedded; and it fails to settle only
\* when it does so there as well.
C22_LastWriteWins ==
    (/\ call = "extractData" /\ embedded.done
     /\ (pc = "settled" \/ (pc = "CollectBits" /\ i = Len(data) + 1)))
        => \E only \in {HiddenBuffer(BaseOf(data), embedded.dataToHide)} :
              IF pc = "settled"
              THEN outcome = ExtractResult(only, password)
              ELSE ExtractResult(only, password) = Pending

\* extractData has resolved on a buffer that still holds, beyond the second
\* container, bits of a longer first one.
C22_Witness ==
    /\ call = "extractData" /\ pc = "settled" /\ embedded.done
    /\ outcome.settled = "resolved"
    /\ data /= HiddenBuffer(BaseOf(data), embedded.dataToHide)

\* C23: payload addresses are distinct and never alpha. At every iteration k
\* of hideData's payload loop the index is 32 + k + floor((32 + k) / 3), it
\* is greater than the index of the iteration before (hence of every earlier
\* one) and it is not an alpha index, so the skip branch is not taken; every bit of an earlier
\* iteration whose index lies inside the buffer is in its sample.
C23_AddressesDistinctNeverAlpha ==
    (call = "hideData" /\ pc = "WritePayload")
        => /\ \A k \in 0..i :
                 /\ DataIndex(k) = 32 + k + ((32 + k) \div 3)
                 /\ (DataIndex(k) + 1) % 4 /= 0
                 /\ (k > 0) => DataIndex(k - 1) < DataIndex(k)
           /\ \A k \in 0..(i - 1) :
                 (DataIndex(k) < Len(data))
                    => data[DataIndex(k) + 1] % 2 = binaryData[k + 1]

\* The payload loop has run through a whole container of 14 characters.
C23_Witness ==
    /\ call = "hideData" /\ pc = "WritePayload"
    /\ i = Len(binaryData) /\ i >= 112


\* C24: no silent truncation. Whenever hideData has accepted a container, the
\* index of every iteration of its payload loop lies inside the buffer: the
\* guard 'dataIndex < data.length' discards no bit.
C24_NoSilentTruncation ==
    (call = "hideData" /\ pc = "WritePayload" /\ i < Len(binaryData))
        => /\ Len(dataToHide) <= ((Len(data) \div 4) * 3) \div 8
           /\ DataIndex(i) < Len(data)


\* C25: embedded data is always detected. In every state of an extractData
\* call on an image that hideData produced, the call has not failed with
\* NoHiddenData; the 32 header samples lie inside the buffer and, once read,
\* the header is the length L of the container, with 0 < L <= pixelCount.
C25_EmbeddedDetected ==
    (call = "extractData" /\ embedded.done)
        => /\ outcome.kind /= "NoHiddenData"
           /\ Len(data) >= 32
           /\ (pc /= "ReadHeader")
                 => /\ length = [hi |-> 0, lo |-> Len(embedded.dataToHide)]
                    /\ 0 < length.lo
                    /\ length.lo <= Len(data) \div 4

\* An extractData call on an image that holds a container as long as its
\* capacity has passed the length check.
C25_Witness ==
    /\ call = "extractData" /\ embedded.done /\ pc = "CollectBits"
    /\ Len(embedded.dataToHide) = ((Len(data) \div 4) * 3) \div 8


\* C26: tag fidelity. Whenever extractData settles on an image into which
\* hideData embedded without a password, it has not classified the text as
\* encrypted (no password-required or decryption outcome); on an image
\* embedded with a password it has not classified it as plaintext.
C26_TagFidelity ==
    ExtractedFromEmbedded
        => /\ (embedded.password = << >>)
                 => /\ DataType(CleanText(extractedText)) /= "encrypted"
                    /\ outcome.kind \notin {"PasswordRequired", "DecryptionFailed", "decrypted"}
           /\ (embedded.password /= << >>)
                 => /\ DataType(CleanText(extractedText)) /= "plaintext"
                    /\ outcome.kind /= "plaintext"


\* C27: advertised capacity is usable. Whenever hideData is called without a
\* password with a text no longer than calculateMaxTextLength of the image,
\* it does not fail with CapacityExceeded.
C27_AdvertisedCapacityUsable ==
    (/\ call = "hideData" /\ password = << >>
     /\ \E d \in DimensionsOf(data) : Len(text) <= calculateMaxTextLength(d[1], d[2]))
        => outcome.kind /= "CapacityExceeded"


\* The settlement of extractData of src/unnamed/part_000 on the buffer; up to
\* the conversion of the bits its code is that of src/static/steganography.js.
ExtractResult_part000(buf, pw) ==
    LET len == ParseLength(ReadLengthBinary(buf))
        n == len.lo * CharBits
    IN  IF LengthInvalid(len, buf) THEN Rejected("NoHiddenData", 0)
        ELSE IF ScanIndex(n - 1) >= Len(buf) THEN Pending
        ELSE UnframeOutcome_part000(
                 binaryToText_part000([k \in 1..n |-> buf[ScanIndex(k - 1) + 1] % 2]), pw)

\* C28: the two variants are observationally equivalent. Whenever extractData
\* of src/static/steganography.js has settled on a buffer with a password,
\* that is how extractData of src/unnamed/part_000 settles on them: the same
\* resolved value or the same kind of rejection.
C28_VariantsEquivalent ==
    (call = "extractData" /\ pc = "settled")
        => outcome = ExtractResult_part000(data, password)


\* The shift is one of the integers 1 .. 25, written in decimal digits.
ShiftInRange(s) == \E n \in 1..25 : s = Decimal(n)

IsUpper(c) == c >= 65 /\ c <= 90

IsLower(c) == c >= 97 /\ c <= 122

\* Round trip and character classes, for a call that returned.
CaesarReturned ==
    /\ (pc \in {"ciphered", "deciphered"})
          => /\ Len(dataToHide) = Len(text)
             /\ \A k \in 1..Len(text) :
                   /\ IsUpper(text[k]) <=> IsUpper(dataToHide[k])
                   /\ IsLower(text[k]) <=> IsLower(dataToHide[k])
                   /\ (~IsUpper(text[k]) /\ ~IsLower(text[k])) => dataToHide[k] = text[k]
                   /\ (IsUpper(text[k]) \/ IsLower(text[k])) => dataToHide[k] /= text[k]
    /\ (pc = "deciphered") => extractedText = text

\* C29: Caesar round trip. For a shift in 1 .. 25 neither function throws,
\* letters stay letters of the same case, non-letters are unchanged and
\* deciphering the ciphered text gives the text; for any other shift
\* (outside 1 .. 25, or not a number) caesarCipher throws and returns nothing.
C29_CaesarRoundTrip ==
    /\ CaesarReturned
    /\ ShiftInRange(password) => pc /= "threw"
    /\ (~ShiftInRange(password)) => pc \in {"idle", "threw"}

\* The part of C29 that holds: the same with "the shift parseInt reads from
\* the argument" in place of the shift.
C29_ParsedShift ==
    /\ CaesarReturned
    /\ ShiftInRange(password) => pc /= "threw"
    /\ (ParseInt10(password).nan \/ ParseInt10(password).value \notin 1..25)
          => pc \in {"idle", "threw"}


\* C30: after a click that passes the input checks the button is disabled
\* while the operation is pending and is eventually enabled again, whatever
\* happens next.
C30_ButtonLiveness ==
    \A b \in Buttons : disabled[b] ~> ~disabled[b]

\* The part of C30 that holds: the button is disabled for as long as the
\* image loads or the codec is awaited, and enabled when no click is in
\* progress.
C30_DisabledWhilePending ==
    \A b \in Buttons :
        /\ pc[b] \in {"loading", "awaiting"} => disabled[b]
        /\ pc[b] = "idle" => ~disabled[b]

\* The part of C30 that holds: once img.onload awaits the codec, the button
\* is enabled again unless extractData never leaves its loop.
C30_AwaitedCallEnables ==
    \A b \in Buttons : (pc[b] = "awaiting") ~> (~disabled[b] \/ ~ThreadFree)

====
